---------------------------- MODULE Spec2Model ----------------------------
(***************************************************************************)
(* Byword Legal AI intake: the international phone-number parser/formatter *)
(* (international_phone_system.py) and the jurisdiction manager            *)
(* (main_international_manager.py), modelled as state machines.            *)
(*                                                                         *)
(* Python strings are TLA+ strings; Len, \o, SubSeq and Tail act on them   *)
(* as on sequences of characters.  Python's None is the marker None, and   *)
(* an exception leaving a function is the name of the exception in the     *)
(* result's field "exception".                                             *)
(***************************************************************************)
EXTENDS Integers, Sequences, FiniteSets, TLC

VARIABLES
    pc,             \* position of the caller: "idle", then the call made
    phone_number,   \* argument of parse_phone_number (raw input)
    country_hint,   \* argument of parse_phone_number
    phone_info,     \* the PhoneNumberInfo returned by parse_phone_number
    fmt_country,    \* country key handed to _format_number
    fmt_national,   \* national number handed to _format_number
    fmt_result,     \* the string _format_number returned
    calling_from_country,  \* argument of format_for_dialing
    dialing,        \* the dictionary format_for_dialing returned
    cleaned,        \* what _clean_phone_number returned for phone_number
    recleaned,      \* what _clean_phone_number returned for cleaned
    area_national,  \* national number handed to _extract_area_code
    area_map,       \* the keys of the area-code map handed to _extract_area_code
    area_found,     \* what _extract_area_code returned
    claim_type,     \* argument of find_equivalent_claim_types
    target_legal_system,  \* argument of find_equivalent_claim_types
    equivalents,    \* what find_equivalent_claim_types returned (a list in no fixed order)
    query,          \* argument of search_jurisdictions
    search_results, \* the list search_jurisdictions returned
    postal_code,    \* argument of validate_postal_code
    postal_country, \* argument of validate_postal_code (country_code)
    postal_result,  \* the (valid, reason) pair validate_postal_code returned
    files,          \* the case data files: candidate path -> what is there
    load_country,    \* argument of load_cases_by_jurisdiction
    load_state,     \* argument of load_cases_by_jurisdiction
    loaded,         \* what load_cases_by_jurisdiction returned
    index_dir,      \* faiss_indices/usa/colorado and the two artifacts in it
    colorado_cases, \* local of rebuild_colorado_index
    rebuilt         \* how rebuild_colorado_index ended

parse_vars == << phone_number, country_hint, phone_info >>

fmt_vars == << fmt_country, fmt_national, fmt_result >>

dial_vars == << calling_from_country, dialing >>

clean_vars == << cleaned, recleaned >>

area_vars == << area_national, area_map, area_found >>

phone_vars == << parse_vars, fmt_vars, dial_vars, clean_vars, area_vars >>

equiv_vars == << claim_type, target_legal_system, equivalents >>

search_vars == << query, search_results >>

postal_vars == << postal_code, postal_country, postal_result >>

jur_vars == << equiv_vars, search_vars, postal_vars >>

case_vars == << files, load_country, load_state, loaded, index_dir, colorado_cases, rebuilt >>

vars == << pc, phone_vars, jur_vars, case_vars >>

None == "None"
IndexError == "IndexError"
KeyError == "KeyError"

-----------------------------------------------------------------------------
(* Python string primitives *)

Min(a, b) == IF a <= b THEN a ELSE b

\* s[a:b] for 0 <= a, 0 <= b (slices clamp, they never raise)
Slice(s, a, b) ==
    LET lo == Min(a, Len(s))
        hi == Min(b, Len(s))
    IN  IF lo >= hi THEN "" ELSE SubSeq(s, lo + 1, hi)

\* s[a:]
SliceFrom(s, a) == Slice(s, a, Len(s))

\* s[i] for 0 <= i: IndexError when i is out of range
CharAt(s, i) == IF i < Len(s) THEN SubSeq(s, i + 1, i + 1) ELSE IndexError

\* s.startswith(p)
StartsWith(s, p) == Len(p) <= Len(s) /\ Slice(s, 0, Len(p)) = p

\* bool(s) for s a string or None
Truthy(s) == s # None /\ s # ""

\* the characters \d matches among those the inputs are made of (\d also matches
\* the decimal digits of other scripts, which no input here contains)
Digits == {"0", "1", "2", "3", "4", "5", "6", "7", "8", "9"}

\* re.sub(r'[^\d]', '', s)
RECURSIVE StripNonDigits(_)
StripNonDigits(s) ==
    IF s = "" THEN ""
    ELSE (IF SubSeq(s, 1, 1) \in Digits THEN SubSeq(s, 1, 1) ELSE "") \o StripNonDigits(Tail(s))

\* s.replace(c, '') for a single character c
RECURSIVE RemoveChar(_, _)
RemoveChar(s, c) ==
    IF s = "" THEN ""
    ELSE (IF SubSeq(s, 1, 1) = c THEN "" ELSE SubSeq(s, 1, 1)) \o RemoveChar(Tail(s), c)

UpperOf ==
    [c \in {"a", "b", "c", "d", "e", "f", "g", "h", "i", "j", "k", "l", "m",
            "n", "o", "p", "q", "r", "s", "t", "u", "v", "w", "x", "y", "z"} |->
        CASE c = "a" -> "A" [] c = "b" -> "B" [] c = "c" -> "C" [] c = "d" -> "D"
          [] c = "e" -> "E" [] c = "f" -> "F" [] c = "g" -> "G" [] c = "h" -> "H"
          [] c = "i" -> "I" [] c = "j" -> "J" [] c = "k" -> "K" [] c = "l" -> "L"
          [] c = "m" -> "M" [] c = "n" -> "N" [] c = "o" -> "O" [] c = "p" -> "P"
          [] c = "q" -> "Q" [] c = "r" -> "R" [] c = "s" -> "S" [] c = "t" -> "T"
          [] c = "u" -> "U" [] c = "v" -> "V" [] c = "w" -> "W" [] c = "x" -> "X"
          [] c = "y" -> "Y" [] c = "z" -> "Z"]

LowerOf ==
    [c \in {UpperOf[x] : x \in DOMAIN UpperOf} |->
        CHOOSE x \in DOMAIN UpperOf : UpperOf[x] = c]

\* s.upper()
RECURSIVE Upper(_)
Upper(s) ==
    IF s = "" THEN ""
    ELSE (IF SubSeq(s, 1, 1) \in DOMAIN UpperOf THEN UpperOf[SubSeq(s, 1, 1)] ELSE SubSeq(s, 1, 1))
         \o Upper(Tail(s))

\* s.lower()
RECURSIVE Lower(_)
Lower(s) ==
    IF s = "" THEN ""
    ELSE (IF SubSeq(s, 1, 1) \in DOMAIN LowerOf THEN LowerOf[SubSeq(s, 1, 1)] ELSE SubSeq(s, 1, 1))
         \o Lower(Tail(s))

-----------------------------------------------------------------------------
(* The country phone table, in the table's iteration order *)

CountryOrder ==
    << "united_states",
       "canada",
       "australia",
       "united_kingdom",
       "germany",
       "france",
       "brazil",
       "india",
       "japan",
       "mexico" >>

INTERNATIONAL_PHONE_DATABASE ==
    ("united_states" :> [
        country_code |-> "US",
        calling_code |-> "+1",
        country_name |-> "United States",
        national_prefix |-> "1",
        international_prefix |-> "011",
        mobile_prefixes |-> <<>>,
        area_codes |-> {"303", "720", "719", "970", "213", "310", "323", "415",
                        "510", "650", "707", "714", "760", "805", "818", "831",
                        "858", "909", "916", "949", "212", "347", "646", "718",
                        "917", "214", "281", "512", "713", "832", "972"} ])
    @@ ("canada" :> [
        country_code |-> "CA",
        calling_code |-> "+1",
        country_name |-> "Canada",
        national_prefix |-> "1",
        international_prefix |-> "011",
        mobile_prefixes |-> <<>>,
        area_codes |-> {"416", "647", "437", "613", "905", "289", "519", "705",
                        "807", "604", "778", "236", "250", "403", "587", "780",
                        "825", "514", "438", "450", "579", "418", "819"} ])
    @@ ("australia" :> [
        country_code |-> "AU",
        calling_code |-> "+61",
        country_name |-> "Australia",
        national_prefix |-> "0",
        international_prefix |-> "0011",
        mobile_prefixes |-> <<"04", "05">>,
        area_codes |-> {"02", "03", "07", "08", "04", "05"} ])
    @@ ("united_kingdom" :> [
        country_code |-> "GB",
        calling_code |-> "+44",
        country_name |-> "United Kingdom",
        national_prefix |-> "0",
        international_prefix |-> "00",
        mobile_prefixes |-> <<"07">>,
        area_codes |-> {"020", "0121", "0131", "0141", "0151", "0161", "0113", "0114",
                        "0115", "0116", "0117", "0118", "01223", "01865", "01904"} ])
    @@ ("germany" :> [
        country_code |-> "DE",
        calling_code |-> "+49",
        country_name |-> "Germany",
        national_prefix |-> "0",
        international_prefix |-> "00",
        mobile_prefixes |-> <<"015", "016", "017">>,
        area_codes |-> {"030", "040", "069", "089", "0221", "0211", "0201", "0231",
                        "0711", "0351"} ])
    @@ ("france" :> [
        country_code |-> "FR",
        calling_code |-> "+33",
        country_name |-> "France",
        national_prefix |-> "0",
        international_prefix |-> "00",
        mobile_prefixes |-> <<"06", "07">>,
        area_codes |-> {"01", "02", "03", "04", "05", "06", "07"} ])
    @@ ("brazil" :> [
        country_code |-> "BR",
        calling_code |-> "+55",
        country_name |-> "Brazil",
        national_prefix |-> "0",
        international_prefix |-> "00",
        mobile_prefixes |-> <<"9">>,
        area_codes |-> {"11", "21", "31", "41", "47", "48", "51", "61",
                        "62", "71", "81", "85"} ])
    @@ ("india" :> [
        country_code |-> "IN",
        calling_code |-> "+91",
        country_name |-> "India",
        national_prefix |-> "0",
        international_prefix |-> "00",
        mobile_prefixes |-> <<"6", "7", "8", "9">>,
        area_codes |-> {"11", "22", "33", "40", "44", "80", "20", "79"} ])
    @@ ("japan" :> [
        country_code |-> "JP",
        calling_code |-> "+81",
        country_name |-> "Japan",
        national_prefix |-> "0",
        international_prefix |-> "010",
        mobile_prefixes |-> <<"070", "080", "090">>,
        area_codes |-> {"03", "06", "052", "011", "022", "092", "075", "045"} ])
    @@ ("mexico" :> [
        country_code |-> "MX",
        calling_code |-> "+52",
        country_name |-> "Mexico",
        national_prefix |-> "01",
        international_prefix |-> "00",
        mobile_prefixes |-> <<"1">>,
        area_codes |-> {"55", "33", "81", "222", "228", "664", "998"} ])

Countries == {CountryOrder[i] : i \in 1..Len(CountryOrder)}

-----------------------------------------------------------------------------
(* InternationalPhoneManager *)

\* _clean_phone_number with the slice after '+' one character off: raw[2:]
clean_phone_number_skips_digit(raw) ==
    IF StartsWith(raw, "+")
    THEN "+" \o StripNonDigits(SliceFrom(raw, 2))
    ELSE StripNonDigits(raw)

\* re.sub(r'[^\d+]', '', s): a '+' is kept wherever it stands
RECURSIVE StripNonDigitsButPlus(_)
StripNonDigitsButPlus(s) ==
    IF s = "" THEN ""
    ELSE (IF SubSeq(s, 1, 1) \in Digits \cup {"+"} THEN SubSeq(s, 1, 1) ELSE "")
         \o StripNonDigitsButPlus(Tail(s))

\* _clean_phone_number keeping every '+' of the input
clean_phone_number_keeps_every_plus(raw) == StripNonDigitsButPlus(raw)

\* _clean_phone_number
_clean_phone_number(raw) ==
    IF StartsWith(raw, "+")
    THEN "+" \o StripNonDigits(SliceFrom(raw, 1))
    ELSE StripNonDigits(raw)

\* the keys, in table order, whose calling-code digits start the digits after '+'
DetectMatches(cleaned_number) ==
    {i \in 1..Len(CountryOrder) :
        StartsWith(SliceFrom(cleaned_number, 1),
                   RemoveChar(INTERNATIONAL_PHONE_DATABASE[CountryOrder[i]].calling_code, "+"))}

\* _detect_country_from_number returning the last match of the table, not the first
detect_country_last_match(cleaned_number) ==
    IF ~StartsWith(cleaned_number, "+") THEN None
    ELSE LET m == DetectMatches(cleaned_number)
         IN  IF m = {} THEN None
             ELSE CountryOrder[CHOOSE i \in m : \A j \in m : i >= j]

\* _detect_country_from_number: the first match of the loop, or None
_detect_country_from_number(cleaned_number) ==
    IF ~StartsWith(cleaned_number, "+") THEN None
    ELSE LET m == DetectMatches(cleaned_number)
         IN  IF m = {} THEN None
             ELSE CountryOrder[CHOOSE i \in m : \A j \in m : i <= j]

\* _get_country_key_from_code comparing without .upper()
get_country_key_case_sensitive(code) ==
    LET m == {i \in 1..Len(CountryOrder) :
                INTERNATIONAL_PHONE_DATABASE[CountryOrder[i]].country_code = code}
    IN  IF m = {} THEN None
        ELSE CountryOrder[CHOOSE i \in m : \A j \in m : i <= j]

\* _get_country_key_from_code: the first key whose country_code is code.upper()
_get_country_key_from_code(code) ==
    LET m == {i \in 1..Len(CountryOrder) :
                INTERNATIONAL_PHONE_DATABASE[CountryOrder[i]].country_code = Upper(code)}
    IN  IF m = {} THEN None
        ELSE CountryOrder[CHOOSE i \in m : \A j \in m : i <= j]

\* _validate_number_for_country without the branch for "IN"
validate_india_by_fallback(national_number, country_info) ==
    LET cc == country_info.country_code
        n  == Len(national_number)
    IN  IF cc \in {"US", "CA"} THEN n = 10
        ELSE IF cc = "AU" THEN n = 9
        ELSE IF cc = "GB" THEN 10 <= n /\ n <= 11
        ELSE IF cc = "DE" THEN 10 <= n /\ n <= 12
        ELSE IF cc = "FR" THEN n = 9
        ELSE IF cc = "JP" THEN 10 <= n /\ n <= 11
        ELSE n >= 7

\* _validate_number_for_country
_validate_number_for_country(national_number, country_info) ==
    LET cc == country_info.country_code
        n  == Len(national_number)
    IN  IF cc \in {"US", "CA"} THEN n = 10
        ELSE IF cc = "AU" THEN n = 9
        ELSE IF cc = "GB" THEN 10 <= n /\ n <= 11
        ELSE IF cc = "DE" THEN 10 <= n /\ n <= 12
        ELSE IF cc = "FR" THEN n = 9
        ELSE IF cc = "IN" THEN n = 10
        ELSE IF cc = "JP" THEN 10 <= n /\ n <= 11
        ELSE n >= 7

\* _determine_phone_type testing 800, 855 and 900 before the mobile prefixes
determine_phone_type_special_first(national_number, country_info) ==
    LET mobile_prefixes == country_info.mobile_prefixes
    IN  IF StartsWith(national_number, "800") \/ StartsWith(national_number, "855")
        THEN "toll_free"
        ELSE IF StartsWith(national_number, "900")
        THEN "premium"
        ELSE IF \E i \in 1..Len(mobile_prefixes) : StartsWith(national_number, mobile_prefixes[i])
        THEN "mobile"
        ELSE "landline"

\* _determine_phone_type
_determine_phone_type(national_number, country_info) ==
    LET mobile_prefixes == country_info.mobile_prefixes
    IN  IF \E i \in 1..Len(mobile_prefixes) : StartsWith(national_number, mobile_prefixes[i])
        THEN "mobile"
        ELSE IF StartsWith(national_number, "800") \/ StartsWith(national_number, "855")
        THEN "toll_free"
        ELSE IF StartsWith(national_number, "900")
        THEN "premium"
        ELSE "landline"

\* _extract_area_code returning the longest prefix that is a key
extract_longest_area_code(national_number, country_info) ==
    LET hits == {len \in 2..5 :
                    /\ Len(national_number) >= len
                    /\ Slice(national_number, 0, len) \in country_info.area_codes}
    IN  IF hits = {} THEN None
        ELSE Slice(national_number, 0, CHOOSE len \in hits : \A k \in hits : len >= k)

\* _extract_area_code: lengths 2, 3, 4, 5 in that order, the first that is a key
_extract_area_code(national_number, country_info) ==
    LET hits == {len \in 2..5 :
                    /\ Len(national_number) >= len
                    /\ Slice(national_number, 0, len) \in country_info.area_codes}
    IN  IF hits = {} THEN None
        ELSE Slice(national_number, 0, CHOOSE len \in hits : \A k \in hits : len <= k)

\* an f-string raises when one of its parts did
Join(parts) ==
    IF \E i \in 1..Len(parts) : parts[i] = IndexError THEN IndexError
    ELSE LET RECURSIVE cat(_)
             cat(i) == IF i > Len(parts) THEN "" ELSE parts[i] \o cat(i + 1)
         IN  cat(1)

\* _apply_formatting with the German split one character off: n[:3] and n[4:]
apply_formatting_drops_digit(national_number, country_info) ==
    LET country_code == country_info.country_code
        n == national_number
    IN  IF country_code \in {"US", "CA"} /\ Len(n) = 10
        THEN Join(<<"(", Slice(n, 0, 3), ") ", Slice(n, 3, 6), "-", SliceFrom(n, 6)>>)
        ELSE IF country_code = "AU" /\ Len(n) = 9
        THEN Join(<<CharAt(n, 0), " ", Slice(n, 1, 5), " ", SliceFrom(n, 5)>>)
        ELSE IF country_code = "GB"
        THEN IF Len(n) = 10
             THEN Join(<<Slice(n, 0, 4), " ", Slice(n, 4, 7), " ", SliceFrom(n, 7)>>)
             ELSE Join(<<Slice(n, 0, 3), " ", Slice(n, 3, 6), " ", SliceFrom(n, 6)>>)
        ELSE IF country_code = "DE"
        THEN Join(<<Slice(n, 0, 3), " ", SliceFrom(n, 4)>>)
        ELSE IF country_code = "FR" /\ Len(n) = 9
        THEN Join(<<CharAt(n, 0), " ", Slice(n, 1, 3), " ", Slice(n, 3, 5), " ",
                    Slice(n, 5, 7), " ", SliceFrom(n, 7)>>)
        ELSE n

\* _apply_formatting
_apply_formatting(national_number, country_info) ==
    LET country_code == country_info.country_code
        n == national_number
    IN  IF country_code \in {"US", "CA"} /\ Len(n) = 10
        THEN Join(<<"(", Slice(n, 0, 3), ") ", Slice(n, 3, 6), "-", SliceFrom(n, 6)>>)
        ELSE IF country_code = "AU" /\ Len(n) = 9
        THEN Join(<<CharAt(n, 0), " ", Slice(n, 1, 5), " ", SliceFrom(n, 5)>>)
        ELSE IF country_code = "GB"
        THEN IF Len(n) = 10
             THEN Join(<<Slice(n, 0, 4), " ", Slice(n, 4, 7), " ", SliceFrom(n, 7)>>)
             ELSE Join(<<Slice(n, 0, 3), " ", Slice(n, 3, 6), " ", SliceFrom(n, 6)>>)
        ELSE IF country_code = "DE"
        THEN Join(<<Slice(n, 0, 3), " ", SliceFrom(n, 3)>>)
        ELSE IF country_code = "FR" /\ Len(n) = 9
        THEN Join(<<CharAt(n, 0), " ", Slice(n, 1, 3), " ", Slice(n, 3, 5), " ",
                    Slice(n, 5, 7), " ", SliceFrom(n, 7)>>)
        ELSE n

\* _format_number
_format_number(national_number, country_info, format_type) ==
    IF format_type = "international"
    THEN Join(<<country_info.calling_code, " ", _apply_formatting(national_number, country_info)>>)
    ELSE _apply_formatting(national_number, country_info)

timezone_mapping ==
    ("united_states" :> ("303" :> "America/Denver" @@ "720" :> "America/Denver"
                         @@ "719" :> "America/Denver" @@ "970" :> "America/Denver"
                         @@ "213" :> "America/Los_Angeles" @@ "415" :> "America/Los_Angeles"
                         @@ "212" :> "America/New_York"))
    @@ ("canada" :> ("416" :> "America/Toronto" @@ "604" :> "America/Vancouver"))
    @@ ("australia" :> ("02" :> "Australia/Sydney" @@ "03" :> "Australia/Melbourne"
                        @@ "07" :> "Australia/Brisbane" @@ "08" :> "Australia/Perth"))

default_timezones ==
    "united_states" :> "America/New_York" @@ "canada" :> "America/Toronto"
    @@ "australia" :> "Australia/Sydney" @@ "united_kingdom" :> "Europe/London"
    @@ "germany" :> "Europe/Berlin" @@ "france" :> "Europe/Paris"

\* _get_timezone_for_area_code
_get_timezone_for_area_code(area_code, country_key) ==
    IF country_key \in DOMAIN timezone_mapping /\ area_code \in DOMAIN timezone_mapping[country_key]
    THEN timezone_mapping[country_key][area_code]
    ELSE IF country_key \in DOMAIN default_timezones
    THEN default_timezones[country_key]
    ELSE "UTC"

\* the national number with the '+' form of the calling code never taken off
national_number_bare_code_only(cleaned_number, country_info) ==
    LET calling_code == RemoveChar(country_info.calling_code, "+")
        after_code ==
            IF StartsWith(cleaned_number, calling_code)
            THEN SliceFrom(cleaned_number, Len(calling_code))
            ELSE cleaned_number
        national_prefix == country_info.national_prefix
    IN  IF Truthy(national_prefix) /\ StartsWith(after_code, national_prefix)
        THEN SliceFrom(after_code, Len(national_prefix))
        ELSE after_code

\* the national number with the national prefix taken off as often as it is there
RECURSIVE StripEveryPrefix(_, _)
StripEveryPrefix(number, national_prefix) ==
    IF Truthy(national_prefix) /\ StartsWith(number, national_prefix)
    THEN StripEveryPrefix(SliceFrom(number, Len(national_prefix)), national_prefix)
    ELSE number

national_number_strips_prefix_twice(cleaned_number, country_info) ==
    LET calling_code == RemoveChar(country_info.calling_code, "+")
        after_code ==
            IF StartsWith(cleaned_number, "+" \o calling_code)
            THEN SliceFrom(cleaned_number, Len(calling_code) + 1)
            ELSE IF StartsWith(cleaned_number, calling_code)
            THEN SliceFrom(cleaned_number, Len(calling_code))
            ELSE cleaned_number
    IN  StripEveryPrefix(after_code, country_info.national_prefix)

\* the national number _parse_for_country works out: the calling code, then the
\* national prefix, taken off the front
NationalNumberOf(cleaned_number, country_info) ==
    LET calling_code == RemoveChar(country_info.calling_code, "+")
        after_code ==
            IF StartsWith(cleaned_number, "+" \o calling_code)
            THEN SliceFrom(cleaned_number, Len(calling_code) + 1)
            ELSE IF StartsWith(cleaned_number, calling_code)
            THEN SliceFrom(cleaned_number, Len(calling_code))
            ELSE cleaned_number
        national_prefix == country_info.national_prefix
    IN  IF Truthy(national_prefix) /\ StartsWith(after_code, national_prefix)
        THEN SliceFrom(after_code, Len(national_prefix))
        ELSE after_code

\* what a call returns when exception exc leaves it
Raised(exc) ==
    [exception |-> exc, raw_number |-> None, formatted_number |-> None,
     international_format |-> None, country_code |-> None, national_number |-> None,
     area_code |-> None, is_valid |-> FALSE, phone_type |-> None,
     country_name |-> None, timezone |-> None]

\* _parse_for_country
_parse_for_country(cleaned_number, country_key, country_info) ==
    LET national_number == NationalNumberOf(cleaned_number, country_info)
        area_code == _extract_area_code(national_number, country_info)
        formatted_number == _format_number(national_number, country_info, "national")
        international_format == _format_number(national_number, country_info, "international")
    IN  IF formatted_number = IndexError \/ international_format = IndexError
        THEN Raised(IndexError)
        ELSE [exception |-> None,
              raw_number |-> cleaned_number,
              formatted_number |-> formatted_number,
              international_format |-> international_format,
              country_code |-> country_info.country_code,
              national_number |-> national_number,
              area_code |-> area_code,
              is_valid |-> _validate_number_for_country(national_number, country_info),
              phone_type |-> _determine_phone_type(national_number, country_info),
              country_name |-> country_info.country_name,
              timezone |-> _get_timezone_for_area_code(area_code, country_key)]

\* the country key parse_phone_number resolves: detection, then the hint, then the US
ResolveCountry(cleaned_number, hint) ==
    LET detected == _detect_country_from_number(cleaned_number)
        hinted == IF ~Truthy(detected) /\ Truthy(hint)
                  THEN _get_country_key_from_code(hint)
                  ELSE detected
    IN  IF ~Truthy(hinted) THEN "united_states" ELSE hinted

\* parse_phone_number
parse_phone_number(raw, hint) ==
    LET cleaned_number == _clean_phone_number(raw)
        detected_country == ResolveCountry(cleaned_number, hint)
    IN  IF detected_country \notin DOMAIN INTERNATIONAL_PHONE_DATABASE
        THEN Raised(KeyError)
        ELSE _parse_for_country(cleaned_number, detected_country,
                                INTERNATIONAL_PHONE_DATABASE[detected_country])

\* a dictionary of format_for_dialing with none of its keys
NoDialing ==
    [error |-> None, domestic |-> None, international |-> None,
     dial_string |-> None, instructions |-> None]

\* the first entry of the table whose country_code is the code, or None
\* (the loops at lines 628-631 and 640-643)
EntryWithCode(code) ==
    LET m == {i \in 1..Len(CountryOrder) :
                INTERNATIONAL_PHONE_DATABASE[CountryOrder[i]].country_code = code}
    IN  IF m = {} THEN None
        ELSE CountryOrder[CHOOSE i \in m : \A j \in m : i <= j]

\* the calling-from lookup falling back to the first entry of the table
calling_from_key_defaults(calling_from) ==
    IF EntryWithCode(calling_from) = None THEN CountryOrder[1] ELSE EntryWithCode(calling_from)

\* calling_from_info of format_for_dialing, as the key of the entry
calling_from_key(calling_from) == EntryWithCode(calling_from)

\* the target's calling code with its '+' left in
target_calling_code_with_plus(info) ==
    IF EntryWithCode(info.country_code) = None THEN None
    ELSE INTERNATIONAL_PHONE_DATABASE[EntryWithCode(info.country_code)].calling_code

\* target_calling_code of format_for_dialing
target_calling_code_of(info) ==
    IF EntryWithCode(info.country_code) = None THEN None
    ELSE RemoveChar(INTERNATIONAL_PHONE_DATABASE[EntryWithCode(info.country_code)].calling_code, "+")

\* format_for_dialing
format_for_dialing(info, calling_from) ==
    LET from_key == calling_from_key(calling_from)
    IN  IF from_key = None
        THEN [NoDialing EXCEPT !.error = "Unknown calling country: " \o calling_from]
        ELSE LET international_prefix ==
                     INTERNATIONAL_PHONE_DATABASE[from_key].international_prefix
                 target_calling_code == target_calling_code_of(info)
             IN  IF ~Truthy(target_calling_code)
                 THEN [NoDialing EXCEPT !.error = "Unknown target country: " \o info.country_code]
                 ELSE IF calling_from = info.country_code
                 THEN [NoDialing EXCEPT !.domestic = info.formatted_number,
                                        !.international = info.international_format,
                                        !.dial_string = info.national_number]
                 ELSE [NoDialing EXCEPT
                          !.international = info.international_format,
                          !.dial_string = international_prefix \o target_calling_code
                                              \o info.national_number,
                          !.instructions = "Dial " \o international_prefix \o " + "
                                               \o target_calling_code \o " + "
                                               \o info.national_number]

-----------------------------------------------------------------------------
(* InternationalJurisdictionManager: legal-system equivalencies *)

\* the categories and, within one, the legal systems, in the table's iteration order
CategoryOrder == <<"employment_law", "civil_rights">>

SystemOrder == <<"common_law", "civil_law">>

LEGAL_EQUIVALENCIES ==
    ("employment_law" :>
        ("common_law" :> <<"wrongful_termination", "discrimination", "harassment",
                           "whistleblower", "wage_theft">>
         @@ "civil_law" :> <<"employment_termination", "workplace_discrimination",
                             "employee_protection", "salary_disputes">>))
    @@ ("civil_rights" :>
        ("common_law" :> <<"discrimination", "civil_liberties", "constitutional_rights">>
         @@ "civil_law" :> <<"fundamental_rights", "equality_rights", "personal_rights">>))

\* the elements of a list
Elements(list) == {list[i] : i \in 1..Len(list)}

\* the categories whose claims are added: the inner loop stops at the first system
\* that is the target and whose list holds claim_type.lower()
MatchingCategories(claim, target_system) ==
    {category \in Elements(CategoryOrder) :
        \E i \in 1..Len(SystemOrder) :
            /\ SystemOrder[i] = target_system
            /\ Lower(claim) \in {Lower(c) : c \in Elements(LEGAL_EQUIVALENCIES[category][SystemOrder[i]])}}

\* find_equivalent_claim_types: list(set(equivalents)), a list without duplicates
\* in no fixed order, kept as the set of its elements
find_equivalent_claim_types(claim, target_system) ==
    UNION {Elements(LEGAL_EQUIVALENCIES[category][target_system]) :
              category \in MatchingCategories(claim, target_system)}

-----------------------------------------------------------------------------
(* InternationalJurisdictionManager: the jurisdiction table and its search *)

\* The countries and, in state_order, the states of a country, in the table's
\* iteration order.  The fields no operation here reads (zip ranges, cities)
\* are left out.  The module's strings are ASCII: "#" stands for the letter I
\* with circumflex of the French region's name and "~" for the u with
\* diaeresis of a German capital.
JurisdictionOrder ==
    << "united_states",
       "canada",
       "australia",
       "united_kingdom",
       "germany",
       "france" >>

INTERNATIONAL_JURISDICTIONS ==
    ("united_states" :> [
        country_name |-> "United States",
        country_code |-> "US",
        legal_system |-> "common_law",
        federal_system |-> TRUE,
        state_order |-> << "colorado", "california", "new_york" >>,
        states |->
            ("colorado" :> [name |-> "Colorado", code |-> "CO", capital |-> "Denver"]) @@
            ("california" :> [name |-> "California", code |-> "CA", capital |-> "Sacramento"]) @@
            ("new_york" :> [name |-> "New York", code |-> "NY", capital |-> "Albany"]) ])
    @@ ("canada" :> [
        country_name |-> "Canada",
        country_code |-> "CA",
        legal_system |-> "common_law",
        federal_system |-> TRUE,
        state_order |-> << "ontario", "british_columbia" >>,
        states |->
            ("ontario" :> [name |-> "Ontario", code |-> "ON", capital |-> "Toronto"]) @@
            ("british_columbia" :> [name |-> "British Columbia", code |-> "BC", capital |-> "Victoria"]) ])
    @@ ("australia" :> [
        country_name |-> "Australia",
        country_code |-> "AU",
        legal_system |-> "common_law",
        federal_system |-> TRUE,
        state_order |-> << "new_south_wales", "victoria" >>,
        states |->
            ("new_south_wales" :> [name |-> "New South Wales", code |-> "NSW", capital |-> "Sydney"]) @@
            ("victoria" :> [name |-> "Victoria", code |-> "VIC", capital |-> "Melbourne"]) ])
    @@ ("united_kingdom" :> [
        country_name |-> "United Kingdom",
        country_code |-> "GB",
        legal_system |-> "common_law",
        federal_system |-> FALSE,
        state_order |-> << "england", "scotland" >>,
        states |->
            ("england" :> [name |-> "England", code |-> "ENG", capital |-> "London"]) @@
            ("scotland" :> [name |-> "Scotland", code |-> "SCT", capital |-> "Edinburgh"]) ])
    @@ ("germany" :> [
        country_name |-> "Germany",
        country_code |-> "DE",
        legal_system |-> "civil_law",
        federal_system |-> TRUE,
        state_order |-> << "bavaria", "north_rhine_westphalia" >>,
        states |->
            ("bavaria" :> [name |-> "Bavaria", code |-> "BY", capital |-> "Munich"]) @@
            ("north_rhine_westphalia" :> [name |-> "North Rhine-Westphalia", code |-> "NW", capital |-> "D~sseldorf"]) ])
    @@ ("france" :> [
        country_name |-> "France",
        country_code |-> "FR",
        legal_system |-> "civil_law",
        federal_system |-> FALSE,
        state_order |-> << "ile_de_france" >>,
        states |->
            ("ile_de_france" :> [name |-> "#le-de-France", code |-> "IDF", capital |-> "Paris"]) ])

\* q in s: s has q as a substring
Contains(s, q) == \E i \in 0..(Len(s) - Len(q)) : Slice(s, i, i + Len(q)) = q

\* a result of type "country" (lines 238-244); the keys it does not have are None
CountryEntry(country_key) ==
    LET country_data == INTERNATIONAL_JURISDICTIONS[country_key]
    IN  [type |-> "country", key |-> country_key, name |-> country_data.country_name,
         code |-> country_data.country_code, legal_system |-> country_data.legal_system,
         country_key |-> None, country_name |-> None, state_key |-> None,
         state_name |-> None, state_code |-> None, capital |-> None]

\* a result of type "state" (lines 251-260)
StateEntry(country_key, state_key) ==
    LET country_data == INTERNATIONAL_JURISDICTIONS[country_key]
        state_data == country_data.states[state_key]
    IN  [type |-> "state", key |-> None, name |-> None, code |-> None,
         legal_system |-> country_data.legal_system,
         country_key |-> country_key, country_name |-> country_data.country_name,
         state_key |-> state_key, state_name |-> state_data.name,
         state_code |-> state_data.code, capital |-> state_data.capital]

\* the country test with the country code left out
country_match_name_only(country_data, query_lower) ==
    Contains(Lower(country_data.country_name), query_lower)

\* the test of lines 236-237
CountryMatch(country_data, query_lower) ==
    \/ Contains(Lower(country_data.country_name), query_lower)
    \/ Contains(Lower(country_data.country_code), query_lower)

\* the state test looking at the code alone
state_match_code_only(state_key, state_data, query_lower) ==
    Contains(Lower(state_data.code), query_lower)

\* the test of lines 248-250
StateMatch(state_key, state_data, query_lower) ==
    \/ Contains(Lower(state_data.name), query_lower)
    \/ Contains(Lower(state_data.code), query_lower)
    \/ Contains(Lower(state_key), query_lower)

\* the inner loop (lines 247-260) over the states of a country
RECURSIVE StateResults(_, _, _)
StateResults(country_key, state_keys, query_lower) ==
    IF state_keys = <<>> THEN <<>>
    ELSE (IF StateMatch(Head(state_keys),
                        INTERNATIONAL_JURISDICTIONS[country_key].states[Head(state_keys)],
                        query_lower)
          THEN <<StateEntry(country_key, Head(state_keys))>>
          ELSE <<>>)
         \o StateResults(country_key, Tail(state_keys), query_lower)

\* the outer loop (lines 234-260) over the countries
RECURSIVE CountryResults(_, _)
CountryResults(country_keys, query_lower) ==
    IF country_keys = <<>> THEN <<>>
    ELSE (IF CountryMatch(INTERNATIONAL_JURISDICTIONS[Head(country_keys)], query_lower)
          THEN <<CountryEntry(Head(country_keys))>>
          ELSE <<>>)
         \o StateResults(Head(country_keys),
                         INTERNATIONAL_JURISDICTIONS[Head(country_keys)].state_order,
                         query_lower)
         \o CountryResults(Tail(country_keys), query_lower)

\* search_jurisdictions
search_jurisdictions(q) == CountryResults(JurisdictionOrder, Lower(q))

-----------------------------------------------------------------------------
(* InternationalJurisdictionManager: postal codes *)

\* the whitespace str.strip() takes off, among the characters of the inputs
Whitespace == {" ", "\t", "\n"}

RECURSIVE StripLeft(_)
StripLeft(s) ==
    IF s # "" /\ SubSeq(s, 1, 1) \in Whitespace THEN StripLeft(Tail(s)) ELSE s

RECURSIVE StripRight(_)
StripRight(s) ==
    IF s # "" /\ SubSeq(s, Len(s), Len(s)) \in Whitespace
    THEN StripRight(SubSeq(s, 1, Len(s) - 1))
    ELSE s

\* s.strip()
Strip(s) == StripRight(StripLeft(s))

\* [A-Z]
UpperLetters == {UpperOf[c] : c \in DOMAIN UpperOf}

\* every character of s is in a class
AllIn(s, class) == \A i \in 1..Len(s) : SubSeq(s, i, i) \in class

\* the character of s at 0-based position i is in a class
At(s, i, class) == i < Len(s) /\ SubSeq(s, i + 1, i + 1) \in class

\* ^\d{n}$ on a string without a newline at its end
MatchesDigits(s, n) == Len(s) = n /\ AllIn(s, Digits)

\* "US": ^\d{5}(-\d{4})?$ demanding the four-digit extension
matches_zip_plus4_only(s) ==
    /\ Len(s) = 10
    /\ AllIn(Slice(s, 0, 5), Digits)
    /\ At(s, 5, {"-"})
    /\ AllIn(Slice(s, 6, 10), Digits)

\* "US": ^\d{5}(-\d{4})?$
MatchesUS(s) ==
    \/ MatchesDigits(s, 5)
    \/ /\ Len(s) = 10
       /\ AllIn(Slice(s, 0, 5), Digits)
       /\ At(s, 5, {"-"})
       /\ AllIn(Slice(s, 6, 10), Digits)

\* "CA": ^[A-Z]\d[A-Z] \d[A-Z]\d$
MatchesCA(s) ==
    /\ Len(s) = 7
    /\ At(s, 0, UpperLetters) /\ At(s, 1, Digits) /\ At(s, 2, UpperLetters)
    /\ At(s, 3, {" "})
    /\ At(s, 4, Digits) /\ At(s, 5, UpperLetters) /\ At(s, 6, Digits)

\* "GB": ^[A-Z]{1,2}\d[A-Z\d]? \d[A-Z]{2}$, a letters and b optional characters
MatchesGB(s) ==
    \E a \in 1..2, b \in 0..1 :
        /\ Len(s) = a + b + 5
        /\ AllIn(Slice(s, 0, a), UpperLetters)
        /\ At(s, a, Digits)
        /\ b = 1 => At(s, a + 1, UpperLetters \cup Digits)
        /\ At(s, a + b + 1, {" "})
        /\ At(s, a + b + 2, Digits)
        /\ AllIn(Slice(s, a + b + 3, a + b + 5), UpperLetters)

\* the keys of patterns (lines 289-296)
patterns == {"US", "CA", "AU", "GB", "DE", "FR"}

\* re.match(patterns[key], s)
PatternMatches(key, s) ==
    CASE key = "US" -> MatchesUS(s)
      [] key = "CA" -> MatchesCA(s)
      [] key = "AU" -> MatchesDigits(s, 4)
      [] key = "GB" -> MatchesGB(s)
      [] key = "DE" -> MatchesDigits(s, 5)
      [] key = "FR" -> MatchesDigits(s, 5)

\* validate_postal_code: the (valid, reason) pair
validate_postal_code(code, ccode) ==
    IF Upper(ccode) \notin patterns
    THEN [valid |-> FALSE, reason |-> "No validation pattern for country " \o ccode]
    ELSE IF PatternMatches(Upper(ccode), Strip(code))
    THEN [valid |-> TRUE, reason |-> "Valid postal code format"]
    ELSE [valid |-> FALSE, reason |-> "Invalid format for " \o ccode]

-----------------------------------------------------------------------------
(* InternationalJurisdictionManager: the case data file *)

\* a key the case object does not have (case.get(key, '') gives '')
Missing == "<missing>"

\* a value that is not a string (null, a number): .lower() raises AttributeError
NonString == "<non-string>"

\* the candidate paths, in the order they are tried
CasePaths == <<"data/client_cases.json", "../data/client_cases.json", "client_cases.json">>

\* what is at a path: nothing, a file open() fails on, a file json.load() fails
\* on, JSON that is no list of objects, or a JSON list of case objects
Absent == [kind |-> "absent", cases |-> <<>>]
Unreadable == [kind |-> "unreadable", cases |-> <<>>]
Malformed == [kind |-> "malformed", cases |-> <<>>]
NotCases == [kind |-> "not_cases", cases |-> <<>>]
CaseFile(list) == [kind |-> "json", cases |-> list]

\* Path(p).exists()
Exists(fs, path) == fs[path].kind # "absent"

\* the data_file that is opened: the first path if it exists, else the first
\* alternative that exists, else the first path all the same
DataFile(fs) ==
    IF Exists(fs, CasePaths[1]) THEN CasePaths[1]
    ELSE IF Exists(fs, CasePaths[2]) THEN CasePaths[2]
    ELSE IF Exists(fs, CasePaths[3]) THEN CasePaths[3]
    ELSE CasePaths[1]

\* case.get(key, '').lower()
FieldLower(value) ==
    IF value = Missing THEN ""
    ELSE IF value = NonString THEN "AttributeError"
    ELSE Lower(value)

\* the three .lower() calls at the top of the loop body raise
CaseRaises(case) ==
    \/ case.country = NonString
    \/ case.state_province = NonString
    \/ case.jurisdiction = NonString

\* the if/elif of the loop body: whether the case is appended
CaseSelected(case, country, state) ==
    IF FieldLower(case.country) = Lower(country)
    THEN IF Truthy(state)
         THEN FieldLower(case.state_province) = Lower(state)
         ELSE TRUE
    ELSE IF Truthy(state)
         THEN FieldLower(case.jurisdiction) = Lower(state)
         ELSE FALSE

\* the cases of a list that are appended, in the order of the list
RECURSIVE FilterCases(_, _, _)
FilterCases(list, country, state) ==
    IF list = <<>> THEN <<>>
    ELSE (IF CaseSelected(Head(list), country, state) THEN <<Head(list)>> ELSE <<>>)
         \o FilterCases(Tail(list), country, state)

\* the body of the try block of load_cases_by_jurisdiction
LoadTry(fs, country, state) ==
    LET data_file == DataFile(fs)
        file == fs[data_file]
    IN  IF ~Exists(fs, data_file)
        THEN [exception |-> None, data_file |-> None, cases |-> <<>>]
        ELSE IF file.kind = "unreadable"
        THEN [exception |-> "OSError", data_file |-> data_file, cases |-> <<>>]
        ELSE IF file.kind = "malformed"
        THEN [exception |-> "JSONDecodeError", data_file |-> data_file, cases |-> <<>>]
        ELSE IF file.kind = "not_cases"
        THEN [exception |-> "AttributeError", data_file |-> data_file, cases |-> <<>>]
        ELSE IF \E i \in 1..Len(file.cases) : CaseRaises(file.cases[i])
        THEN [exception |-> "AttributeError", data_file |-> data_file, cases |-> <<>>]
        ELSE [exception |-> None, data_file |-> data_file,
              cases |-> FilterCases(file.cases, country, state)]

\* load_cases_by_jurisdiction without the except clause
load_cases_uncaught(fs, country, state) == LoadTry(fs, country, state)

\* load_cases_by_jurisdiction: except Exception returns []
load_cases_by_jurisdiction(fs, country, state) ==
    LET tried == LoadTry(fs, country, state)
    IN  IF tried.exception # None
        THEN [exception |-> None, data_file |-> tried.data_file, cases |-> <<>>]
        ELSE tried

-----------------------------------------------------------------------------
(* The calls made on the phone manager *)

\* the longest digit body of an input
MaxDigits == 12

\* digits that fill a number up to a given length
PadDigits == "55501234567890123456"

Pad(n) == Slice(PadDigits, 0, n)

\* what an input starts with: '+' or not, a calling code or not, a national prefix or not
CodeDigits == {"", "1", "61", "44", "49", "33", "55", "91", "81", "52", "7"}

NatPrefixes == {"", "0", "1", "01"}

Heads == {"", "303", "800", "900", "20"}

\* the shortest digit body of a structured input (shorter ones are in JunkInputs)
MinDigits == 6

\* prefix, head and rest written without punctuation
PlainInputs ==
    {plus \o code \o nat \o head \o Pad(len - Len(head)) :
        plus \in {"", "+"}, code \in CodeDigits, nat \in NatPrefixes,
        head \in Heads, len \in MinDigits..MaxDigits}

\* ten digits written the way main() writes them: "+1 (303) 555-0123"
PunctInputs ==
    {plus \o code \o nat \o " (" \o Slice(Pad(10), 0, 3) \o ") "
          \o Slice(Pad(10), 3, 6) \o "-" \o Slice(Pad(10), 6, 10) :
        plus \in {"", "+"}, code \in CodeDigits, nat \in NatPrefixes}

StructuredInputs == PlainInputs \cup PunctInputs

JunkInputs ==
    {"", "+", "abc", "()-", "+-", "+ext", "3+03", "++1", "+1", "1", "0", "+61", "12345", "+1+1",
     "+49 0030 1234567", "0030 1234567"}

\* test_numbers of main()
DemoCalls ==
    {<<"+1 (303) 555-0123", "US">>, <<"+1-416-555-0123", "CA">>,
     <<"+61 2 9876 5432", "AU">>, <<"+44 20 7946 0958", "GB">>,
     <<"+49 30 12345678", "DE">>, <<"+33 1 42 86 83 26", "FR">>,
     <<"(303) 555-0123", "US">>, <<"416-555-0123", "CA">>}

Hints == {None, "", "US", "ca", "DE", "MX", "ZZ"}

Calls == ((StructuredInputs \cup JunkInputs) \X Hints) \cup DemoCalls \cup {<<"+1 (303) 555-0123", None>>}

\* the national numbers handed to the formatter
NationalHeads == {"", "303", "20", "0", "01", "1", "61", "44", "49", "33", "55", "91", "81", "52"}

NationalNumbers ==
    {head \o Pad(len - Len(head)) : head \in NationalHeads, len \in MinDigits..MaxDigits}

NoInfo == Raised(None)

PhoneIdle ==
    /\ pc = "idle"
    /\ phone_number = None
    /\ country_hint = None
    /\ phone_info = NoInfo
    /\ fmt_country = None
    /\ fmt_national = None
    /\ fmt_result = None
    /\ calling_from_country = None
    /\ dialing = NoDialing
    /\ cleaned = None
    /\ recleaned = None
    /\ area_national = None
    /\ area_map = {}
    /\ area_found = None

\* a caller parses a raw number
ParsePhoneNumber ==
    /\ pc = "idle"
    /\ \E call \in Calls :
        /\ phone_number' = call[1]
        /\ country_hint' = call[2]
        /\ phone_info' = parse_phone_number(call[1], call[2])
    /\ pc' = "parsed"
    /\ UNCHANGED <<fmt_vars, dial_vars, clean_vars, area_vars, jur_vars, case_vars>>

\* a caller renders a national number of a country in national format
FormatNational ==
    /\ pc = "idle"
    /\ \E key \in Countries, national \in NationalNumbers :
        /\ fmt_country' = key
        /\ fmt_national' = national
        /\ fmt_result' = _format_number(national, INTERNATIONAL_PHONE_DATABASE[key], "national")
    /\ pc' = "formatted"
    /\ UNCHANGED <<parse_vars, dial_vars, clean_vars, area_vars, jur_vars, case_vars>>

\* the rendered string is parsed again with the country's own code as the hint
ReparseFormatted ==
    /\ pc = "formatted"
    /\ fmt_result # IndexError
    /\ phone_number' = fmt_result
    /\ country_hint' = INTERNATIONAL_PHONE_DATABASE[fmt_country].country_code
    /\ phone_info' = parse_phone_number(phone_number', country_hint')
    /\ pc' = "reparsed"
    /\ UNCHANGED <<fmt_vars, dial_vars, clean_vars, area_vars, jur_vars, case_vars>>

\* the calls whose result is handed on to format_for_dialing: those of main(),
\* the ten-digit inputs, and inputs no calling code of the table starts
DialCalls ==
    DemoCalls \cup (PunctInputs \X {None, "MX"})
    \cup {<<"+701555012", None>>, <<"+799999", "MX">>, <<"", None>>, <<"20 7946 0958", "GB">>}

\* the calling-from values: codes of the table, one in lower case, and others
CallingFrom == {"US", "CA", "GB", "MX", "JP", "us", "ZZ", ""}

\* a caller parses a number it is going to dial
ParseForDialing ==
    /\ pc = "idle"
    /\ \E call \in DialCalls :
        /\ phone_number' = call[1]
        /\ country_hint' = call[2]
        /\ phone_info' = parse_phone_number(call[1], call[2])
    /\ pc' = "parsed"
    /\ UNCHANGED <<fmt_vars, dial_vars, clean_vars, area_vars, jur_vars, case_vars>>

\* the parsed number is formatted for dialing from a country
FormatForDialing ==
    /\ pc = "parsed"
    /\ phone_info.exception = None
    /\ \E calling_from \in CallingFrom :
        /\ calling_from_country' = calling_from
        /\ dialing' = format_for_dialing(phone_info, calling_from)
    /\ pc' = "dialing"
    /\ UNCHANGED <<parse_vars, fmt_vars, clean_vars, area_vars, jur_vars, case_vars>>

\* area-code maps in which a key is a prefix of another, as no map of the table
\* has, and maps with keys too short or too long to be tried
CollidingMaps ==
    {{"30", "303"}, {"303", "3035"}, {"30", "30355"}, {"3035", "30355", "303"},
     {"3", "303555"}, {"01", "0", "015"}, {}}

\* the area-code maps handed to _extract_area_code: those of the table and the others
AreaMaps == {INTERNATIONAL_PHONE_DATABASE[k].area_codes : k \in Countries} \cup CollidingMaps

\* the national numbers handed to _extract_area_code
AreaNumbers == {"", "3", "30", "303", "3035", "30355", "3035550123", "0301234567", "0155501234",
                "2079460958", "0207946095", "5550123456", "1155501234", "0312345678"}

\* _extract_area_code(national_number, country_info)
ExtractAreaCode ==
    /\ pc = "idle"
    /\ \E national \in AreaNumbers, keys \in AreaMaps :
        /\ area_national' = national
        /\ area_map' = keys
        /\ area_found' = _extract_area_code(national, [area_codes |-> keys])
    /\ pc' = "extracted"
    /\ UNCHANGED <<parse_vars, fmt_vars, dial_vars, clean_vars, jur_vars, case_vars>>

\* the longest raw string made of the characters below
MaxRaw == 3

\* a '+', digits, punctuation, a blank and a letter
RawChars == {"+", "1", "0", "-", " ", "x"}

RECURSIVE RawStringsOf(_)
RawStringsOf(n) ==
    IF n = 0 THEN {""}
    ELSE {c \o s : c \in RawChars, s \in RawStringsOf(n - 1)}

\* every string of up to MaxRaw of these characters, and the inputs of main()
RawStrings ==
    UNION {RawStringsOf(n) : n \in 0..MaxRaw} \cup {call[1] : call \in DemoCalls} \cup JunkInputs

\* a raw number is cleaned (line 419)
CleanPhoneNumber ==
    /\ pc = "idle"
    /\ \E raw \in RawStrings :
        /\ phone_number' = raw
        /\ cleaned' = _clean_phone_number(raw)
    /\ pc' = "cleaned"
    /\ UNCHANGED <<country_hint, phone_info, recleaned, fmt_vars, dial_vars, area_vars,
                   jur_vars, case_vars>>

\* the cleaned number is cleaned again
CleanAgain ==
    /\ pc = "cleaned"
    /\ recleaned' = _clean_phone_number(cleaned)
    /\ pc' = "recleaned"
    /\ UNCHANGED <<parse_vars, cleaned, fmt_vars, dial_vars, area_vars, jur_vars, case_vars>>

\* embeddings are (number of texts) x 768 (line 376)
EmbeddingDim == 768

\* an artifact of the index directory
NoArtifact == [state |-> "absent", cases |-> <<>>, cases_count |-> 0, embeddings_shape |-> <<0, 0>>]

\* a list back to front
RECURSIVE Reversed(_)
Reversed(list) == IF list = <<>> THEN <<>> ELSE Reversed(Tail(list)) \o <<Head(list)>>

\* metadata.json holding the cases in the opposite order
metadata_of_reversed(cases) ==
    [state |-> "written", cases |-> Reversed(cases), cases_count |-> 0, embeddings_shape |-> <<0, 0>>]

MetadataOf(cases) ==
    [state |-> "written", cases |-> cases, cases_count |-> 0, embeddings_shape |-> <<0, 0>>]

IndexInfoOf(cases, shape) ==
    [state |-> "written", cases |-> <<>>, cases_count |-> Len(cases), embeddings_shape |-> shape]

\* an artifact whose write failed after open(..., 'w') had truncated it
Partial == [state |-> "partial", cases |-> <<>>, cases_count |-> 0, embeddings_shape |-> <<0, 0>>]

-----------------------------------------------------------------------------
(* The calls made on the jurisdiction manager: equivalencies *)

\* no (valid, reason) pair yet
NoVerdict == [valid |-> FALSE, reason |-> None]

TableClaims ==
    UNION {Elements(LEGAL_EQUIVALENCIES[category][system]) :
              category \in Elements(CategoryOrder), system \in Elements(SystemOrder)}

ClaimQueries == TableClaims \cup {Upper(c) : c \in TableClaims} \cup {"fraud", ""}

TargetSystems == {"common_law", "civil_law", "Civil_Law", "religious_law"}

JurIdle ==
    /\ claim_type = None
    /\ target_legal_system = None
    /\ equivalents = {}
    /\ query = None
    /\ search_results = <<>>
    /\ postal_code = None
    /\ postal_country = None
    /\ postal_result = NoVerdict

FindEquivalentClaimTypes ==
    /\ pc = "idle"
    /\ \E claim \in ClaimQueries, target \in TargetSystems :
        /\ claim_type' = claim
        /\ target_legal_system' = target
        /\ equivalents' = find_equivalent_claim_types(claim, target)
    /\ pc' = "equivalents"
    /\ UNCHANGED <<search_vars, postal_vars, phone_vars, case_vars>>

\* the strings of the jurisdiction table: keys, names and codes
JurisdictionStrings ==
    UNION {{k, INTERNATIONAL_JURISDICTIONS[k].country_name, INTERNATIONAL_JURISDICTIONS[k].country_code}
           \cup UNION {{sk, INTERNATIONAL_JURISDICTIONS[k].states[sk].name,
                         INTERNATIONAL_JURISDICTIONS[k].states[sk].code} :
                           sk \in Elements(INTERNATIONAL_JURISDICTIONS[k].state_order)} :
           k \in Elements(JurisdictionOrder)}

\* parts of names and codes, and strings that are in none
QueryParts == {"", " ", "_", "a", "ia", "or", "co", "new", "united", "w", "land", "zz", "colorado springs", "-de-"}

SearchQueries ==
    JurisdictionStrings \cup QueryParts
    \cup {Upper(q) : q \in JurisdictionStrings \cup QueryParts}
    \cup {Lower(q) : q \in JurisdictionStrings \cup QueryParts}

\* search_jurisdictions(query)
SearchJurisdictions ==
    /\ pc = "idle"
    /\ \E q \in SearchQueries :
        /\ query' = q
        /\ search_results' = search_jurisdictions(q)
    /\ pc' = "searched"
    /\ UNCHANGED <<equiv_vars, postal_vars, phone_vars, case_vars>>

PostalCodes ==
    {"80202", "ABC", "80202-1234", " 80202 ", "80202\n", "8020", "802022", "80202-12", "80202 1234",
     "K1A 0B1", "k1a 0b1", "K1A0B1", "2000", "SW1A 1AA", "M1 1AA", "EC1A 1BB", "sw1a 1aa",
     "SW1A  1AA", "ABC1 1AA", "10115", "75001", "", " "}

PostalCountries == {"US", "us", "CA", "AU", "GB", "gb", "DE", "FR", "JP", "ZZ", ""}

\* validate_postal_code(postal_code, country_code)
ValidatePostalCode ==
    /\ pc = "idle"
    /\ \E code \in PostalCodes, ccode \in PostalCountries :
        /\ postal_code' = code
        /\ postal_country' = ccode
        /\ postal_result' = validate_postal_code(code, ccode)
    /\ pc' = "validated"
    /\ UNCHANGED <<equiv_vars, search_vars, phone_vars, case_vars>>

-----------------------------------------------------------------------------
(* The calls made on the jurisdiction manager: cases and the Colorado index *)

\* the longest case list of a file
MaxCases == 2

CaseObjects ==
    [country : {Missing, "united_states", "canada", NonString},
     state_province : {Missing, "Colorado", "utah", NonString},
     jurisdiction : {Missing, "colorado", "utah", NonString}]

ModernCase == [country |-> "united_states", state_province |-> "Colorado", jurisdiction |-> Missing]
LegacyCase == [country |-> Missing, state_province |-> Missing, jurisdiction |-> "colorado"]
OtherStateCase == [country |-> "united_states", state_province |-> "utah", jurisdiction |-> Missing]
BrokenCase == [country |-> "united_states", state_province |-> NonString, jurisdiction |-> Missing]

\* the case lists of the first candidate path: every single case, and the longer
\* lists of four cases
CaseLists ==
    {<<>>} \cup {<<c>> : c \in CaseObjects}
    \cup UNION {[1..n -> {ModernCase, LegacyCase, OtherStateCase, BrokenCase}] : n \in 2..MaxCases}

PrimaryFiles == {Absent, Unreadable, Malformed, NotCases} \cup {CaseFile(l) : l \in CaseLists}

AlternativeFiles == {Absent, Malformed, CaseFile(<<LegacyCase>>)}

LoadRequests ==
    {<<"united_states", "colorado">>, <<"United_States", "Colorado">>,
     <<"united_states", None>>, <<"united_states", "">>, <<"canada", "ontario">>}

\* the index directory before a run: not there, its path taken by a file, or
\* there with the artifacts of an earlier run
IndexDirs ==
    {[dir |-> "absent", metadata |-> NoArtifact, index_info |-> NoArtifact],
     [dir |-> "blocked", metadata |-> NoArtifact, index_info |-> NoArtifact],
     [dir |-> "exists", metadata |-> MetadataOf(<<LegacyCase>>),
      index_info |-> IndexInfoOf(<<LegacyCase>>, <<1, EmbeddingDim>>)]}

NoLoad == [exception |-> None, data_file |-> None, cases |-> <<>>]

CaseIdle ==
    /\ files = [p \in Elements(CasePaths) |-> Absent]
    /\ load_country = None
    /\ load_state = None
    /\ loaded = NoLoad
    /\ index_dir = [dir |-> "absent", metadata |-> NoArtifact, index_info |-> NoArtifact]
    /\ colorado_cases = <<>>
    /\ rebuilt = None

CaseInit ==
    /\ pc = "idle"
    /\ \E first \in PrimaryFiles, second \in AlternativeFiles, third \in AlternativeFiles :
        files = (CasePaths[1] :> first) @@ (CasePaths[2] :> second) @@ (CasePaths[3] :> third)
    /\ load_country = None
    /\ load_state = None
    /\ loaded = NoLoad
    /\ index_dir \in IndexDirs
    /\ colorado_cases = <<>>
    /\ rebuilt = None

\* load_cases_by_jurisdiction(country_key, state_key)
LoadCasesByJurisdiction ==
    /\ pc = "idle"
    /\ \E request \in LoadRequests :
        /\ load_country' = request[1]
        /\ load_state' = request[2]
        /\ loaded' = load_cases_by_jurisdiction(files, request[1], request[2])
    /\ pc' = "loaded"
    /\ UNCHANGED <<files, index_dir, colorado_cases, rebuilt, phone_vars, jur_vars>>

\* the index directory made before the cases are looked at
rebuild_load_mkdir_first ==
    /\ pc = "idle"
    /\ colorado_cases' = load_cases_by_jurisdiction(files, "united_states", "colorado").cases
    /\ index_dir' = IF index_dir.dir = "absent" THEN [index_dir EXCEPT !.dir = "exists"] ELSE index_dir
    /\ IF colorado_cases' = <<>>
       THEN pc' = "rebuilt" /\ rebuilt' = "False"
       ELSE pc' = "rb_mkdir" /\ rebuilt' = rebuilt
    /\ UNCHANGED <<files, load_country, load_state, loaded, phone_vars, jur_vars>>

\* rebuild_colorado_index, lines 360-364: load the Colorado cases, False when none
RebuildLoad ==
    /\ pc = "idle"
    /\ colorado_cases' = load_cases_by_jurisdiction(files, "united_states", "colorado").cases
    /\ IF colorado_cases' = <<>>
       THEN pc' = "rebuilt" /\ rebuilt' = "False"
       ELSE pc' = "rb_mkdir" /\ rebuilt' = rebuilt
    /\ UNCHANGED <<files, load_country, load_state, loaded, index_dir, phone_vars, jur_vars>>

\* lines 367-368: index_dir.mkdir(parents=True, exist_ok=True), outside the try
RebuildMkdir ==
    /\ pc = "rb_mkdir"
    /\ \/ /\ index_dir.dir = "exists"
          /\ pc' = "rb_embed"
          /\ UNCHANGED <<index_dir, rebuilt>>
       \/ /\ index_dir.dir = "absent"
          /\ index_dir' = [index_dir EXCEPT !.dir = "exists"]
          /\ pc' = "rb_embed"
          /\ UNCHANGED rebuilt
       \/ /\ index_dir.dir = "absent"
          /\ rebuilt' = "PermissionError"
          /\ pc' = "rebuilt"
          /\ UNCHANGED index_dir
       \/ /\ index_dir.dir = "blocked"
          /\ rebuilt' = "NotADirectoryError"
          /\ pc' = "rebuilt"
          /\ UNCHANGED index_dir
    /\ UNCHANGED <<files, load_country, load_state, loaded, colorado_cases, phone_vars, jur_vars>>

\* lines 371-376: import numpy and draw the embeddings, inside the try
RebuildEmbed ==
    /\ pc = "rb_embed"
    /\ \/ pc' = "rb_metadata" /\ UNCHANGED rebuilt
       \/ pc' = "rebuilt" /\ rebuilt' = "False"
    /\ UNCHANGED <<files, load_country, load_state, loaded, index_dir, colorado_cases, phone_vars, jur_vars>>

\* the metadata written over the case data file instead of metadata.json
rebuild_writes_case_file ==
    /\ pc = "rb_metadata"
    /\ files' = [files EXCEPT ![DataFile(files)] = CaseFile(colorado_cases)]
    /\ pc' = "rb_info"
    /\ UNCHANGED <<index_dir, rebuilt>>
    /\ UNCHANGED <<load_country, load_state, loaded, colorado_cases, phone_vars, jur_vars>>

\* the write of metadata.json left out
rebuild_skips_metadata ==
    /\ pc = "rb_metadata"
    /\ pc' = "rb_info"
    /\ UNCHANGED <<index_dir, rebuilt>>
    /\ UNCHANGED <<files, load_country, load_state, loaded, colorado_cases, phone_vars, jur_vars>>

\* lines 379-381: write metadata.json
RebuildWriteMetadata ==
    /\ pc = "rb_metadata"
    /\ \/ /\ index_dir' = [index_dir EXCEPT !.metadata = MetadataOf(colorado_cases)]
          /\ pc' = "rb_info"
          /\ UNCHANGED rebuilt
       \/ /\ index_dir' = [index_dir EXCEPT !.metadata = Partial]
          /\ pc' = "rebuilt"
          /\ rebuilt' = "False"
       \/ /\ UNCHANGED index_dir
          /\ pc' = "rebuilt"
          /\ rebuilt' = "False"
    /\ UNCHANGED <<files, load_country, load_state, loaded, colorado_cases, phone_vars, jur_vars>>

\* lines 384-396: write index_info.json and return True
RebuildWriteInfo ==
    /\ pc = "rb_info"
    /\ \/ /\ index_dir' = [index_dir EXCEPT !.index_info =
                              IndexInfoOf(colorado_cases, <<Len(colorado_cases), EmbeddingDim>>)]
          /\ rebuilt' = "True"
       \/ /\ index_dir' = [index_dir EXCEPT !.index_info = Partial]
          /\ rebuilt' = "False"
       \/ /\ UNCHANGED index_dir
          /\ rebuilt' = "False"
    /\ pc' = "rebuilt"
    /\ UNCHANGED <<files, load_country, load_state, loaded, colorado_cases, phone_vars, jur_vars>>

\* the call has returned (or its exception was handled) and the caller, holding
\* the same manager, goes on to its next call: the locals of the call are gone,
\* the files stay as they are
NextCall ==
    /\ pc \in {"loaded", "rebuilt"}
    /\ pc' = "idle"
    /\ load_country' = None
    /\ load_state' = None
    /\ loaded' = NoLoad
    /\ colorado_cases' = <<>>
    /\ rebuilt' = None
    /\ UNCHANGED <<files, index_dir, phone_vars, jur_vars>>

-----------------------------------------------------------------------------
(* The specifications *)

PhoneInit == PhoneIdle /\ JurIdle /\ CaseIdle

PhoneNext == ParsePhoneNumber \/ FormatNational \/ ReparseFormatted

PhoneSpec == PhoneInit /\ [][PhoneNext]_vars

DialNext == ParseForDialing \/ FormatForDialing

DialSpec == PhoneInit /\ [][DialNext]_vars

AreaNext == ExtractAreaCode

AreaSpec == PhoneInit /\ [][AreaNext]_vars

CleanNext == CleanPhoneNumber \/ CleanAgain

CleanSpec == PhoneInit /\ [][CleanNext]_vars

JurInit == PhoneIdle /\ JurIdle /\ CaseIdle

JurNext == FindEquivalentClaimTypes \/ SearchJurisdictions \/ ValidatePostalCode

JurSpec == JurInit /\ [][JurNext]_vars

CaseStart == PhoneIdle /\ JurIdle /\ CaseInit

CaseNext ==
    \/ LoadCasesByJurisdiction
    \/ RebuildLoad
    \/ RebuildMkdir
    \/ RebuildEmbed
    \/ RebuildWriteMetadata
    \/ RebuildWriteInfo

CaseSpec == CaseStart /\ [][CaseNext]_vars

\* one call after another on the same manager
CaseSeqNext == CaseNext \/ NextCall

CaseSeqSpec == CaseStart /\ [][CaseSeqNext]_vars

-----------------------------------------------------------------------------
(* Properties of the phone parser/formatter *)

\* a parse has returned
Parsed == pc \in {"parsed", "reparsed"}

\* the national number was valid for the country it was rendered for
RenderedValid ==
    /\ pc = "reparsed"
    /\ _validate_number_for_country(fmt_national, INTERNATIONAL_PHONE_DATABASE[fmt_country])

\* the national number starts with the country's calling-code digits or national prefix
StartsLikePrefix ==
    LET info == INTERNATIONAL_PHONE_DATABASE[fmt_country]
    IN  \/ StartsWith(fmt_national, RemoveChar(info.calling_code, "+"))
        \/ StartsWith(fmt_national, info.national_prefix)

\* C1 as stated: every valid national number of every country, rendered in
\* national format and parsed again with the country's code as hint, comes back
\* as the same national number with is_valid true.
C1_RoundTripAll ==
    RenderedValid =>
        /\ phone_info.national_number = fmt_national
        /\ phone_info.is_valid

\* C1 (amended): a valid national number that starts neither with the country's
\* calling-code digits nor with its national prefix, rendered in national format
\* and parsed again with the country's code as hint, comes back as the same
\* national number with is_valid true; one that starts with either does not.
C1_RoundTrip ==
    RenderedValid =>
        IF StartsLikePrefix
        THEN phone_info.national_number # fmt_national
        ELSE /\ phone_info.exception = None
             /\ phone_info.national_number = fmt_national
             /\ phone_info.is_valid
             /\ phone_info.country_code = INTERNATIONAL_PHONE_DATABASE[fmt_country].country_code

C1_Witness ==
    /\ RenderedValid
    /\ ~StartsLikePrefix
    /\ fmt_country = "germany"
    /\ fmt_result # fmt_national
    /\ phone_info.national_number = fmt_national
    /\ phone_info.is_valid

\* the number of digits of a string
DigitCount(s) == Len(StripNonDigits(s))

\* the shortest national number the length rule of a country accepts
MinLength(country_code) ==
    IF country_code \in {"US", "CA", "IN", "GB", "DE", "JP"} THEN 10
    ELSE IF country_code \in {"AU", "FR"} THEN 9
    ELSE 7

\* every field but the optional area code holds a value
Populated(info) ==
    /\ info.raw_number # None
    /\ info.formatted_number # None
    /\ info.international_format # None
    /\ info.national_number # None
    /\ info.country_code \in {INTERNATIONAL_PHONE_DATABASE[k].country_code : k \in Countries}
    /\ info.country_name # None
    /\ info.phone_type \in {"mobile", "landline", "toll_free", "premium"}
    /\ info.timezone # None
    /\ info.is_valid \in BOOLEAN

\* C2: parse_phone_number returns a record for every input and hint and raises
\* nothing; an input with fewer digits than the resolved country's minimum
\* length (so also an empty or digitless one) gives is_valid false with the
\* other fields populated.
C2_ParseNeverRaises ==
    Parsed =>
        /\ phone_info.exception = None
        /\ Populated(phone_info)
        /\ DigitCount(phone_number) < MinLength(phone_info.country_code) => ~phone_info.is_valid

\* C3: "+1 (303) 555-0123" without a hint parses to US, 3035550123, area code
\* 303, landline, "(303) 555-0123".
C3_DemoNumber ==
    (pc = "parsed" /\ phone_number = "+1 (303) 555-0123" /\ country_hint = None) =>
        /\ phone_info.country_code = "US"
        /\ phone_info.national_number = "3035550123"
        /\ phone_info.area_code = "303"
        /\ phone_info.phone_type = "landline"
        /\ phone_info.formatted_number = "(303) 555-0123"

C3_Witness ==
    /\ pc = "parsed"
    /\ phone_number = "+1 (303) 555-0123"
    /\ country_hint = None
    /\ phone_info.formatted_number = "(303) 555-0123"

\* the input, cleaned, starts with '+'
International == Parsed /\ StartsWith(phone_info.raw_number, "+")

\* the calling-code digits of the i-th country of the table start the digits after '+'
CodeMatches(i) ==
    StartsWith(SliceFrom(phone_info.raw_number, 1),
               SliceFrom(INTERNATIONAL_PHONE_DATABASE[CountryOrder[i]].calling_code, 1))

\* the country resolved is the first of the table whose calling code matches
FirstMatchResolved ==
    \E i \in 1..Len(CountryOrder) :
        /\ CodeMatches(i)
        /\ \A j \in 1..(i - 1) : ~CodeMatches(j)
        /\ phone_info.country_code = INTERNATIONAL_PHONE_DATABASE[CountryOrder[i]].country_code

\* the hint made no difference to the country resolved
HintNotConsulted ==
    \A h \in Hints : parse_phone_number(phone_number, h).country_code = phone_info.country_code

\* C4 as stated: whenever the cleaned input starts with '+', the country is the
\* first of the table whose calling code is a prefix of the digits after '+',
\* and the hint is not consulted.
C4_PlusIgnoresHint ==
    International =>
        /\ (\E i \in 1..Len(CountryOrder) : CodeMatches(i)) => FirstMatchResolved
        /\ HintNotConsulted

\* C4 (amended): when the cleaned input starts with '+' and some calling code of
\* the table is a prefix of the digits after it, the country is the first such
\* country in table order and the hint is not consulted, so '+1' gives the US
\* even with hint CA; when no calling code matches, the hint (or the US default)
\* decides as for an input without '+'.
C4_PlusFirstMatch ==
    International =>
        IF \E i \in 1..Len(CountryOrder) : CodeMatches(i)
        THEN /\ FirstMatchResolved
             /\ HintNotConsulted
             /\ StartsWith(phone_info.raw_number, "+1") => phone_info.country_code = "US"
        ELSE phone_info.country_code =
                parse_phone_number(SliceFrom(phone_info.raw_number, 1), country_hint).country_code

C4_Witness ==
    /\ International
    /\ StartsWith(phone_number, "+1")
    /\ country_hint = "ca"
    /\ phone_info.country_code = "US"
    /\ phone_info.is_valid

\* C5: without a leading '+', the country is the hinted one when the hint equals,
\* whatever its letter case, a country code of the table, and the US otherwise.
C5_HintOrDefault ==
    (Parsed /\ ~StartsWith(phone_info.raw_number, "+")) =>
        LET hinted == {k \in Countries :
                          /\ country_hint # None
                          /\ Lower(INTERNATIONAL_PHONE_DATABASE[k].country_code) = Lower(country_hint)}
        IN  IF hinted # {}
            THEN \E k \in hinted :
                    phone_info.country_code = INTERNATIONAL_PHONE_DATABASE[k].country_code
            ELSE phone_info.country_code = "US"

C5_Witness ==
    /\ pc = "parsed"
    /\ ~StartsWith(phone_info.raw_number, "+")
    /\ country_hint = "ca"
    /\ phone_info.country_code = "CA"
    /\ phone_info.is_valid

\* format_for_dialing has returned
Dialled == pc = "dialing"

\* the country codes of the phone table
TableCodes == {INTERNATIONAL_PHONE_DATABASE[k].country_code : k \in Countries}

\* the entries of the phone table with a country code
EntriesOf(code) == {k \in Countries : INTERNATIONAL_PHONE_DATABASE[k].country_code = code}

\* C11: calling from the number's own country, the result carries the parsed
\* formatted_number and international_format unchanged and dial_string is the
\* national number; calling from another country of the table, dial_string is
\* that country's international prefix, then the destination's calling-code
\* digits without '+', then the national number, and there is an instruction
\* string.
C11_DialString ==
    (Dialled /\ calling_from_country \in TableCodes) =>
        IF calling_from_country = phone_info.country_code
        THEN /\ dialing.domestic = phone_info.formatted_number
             /\ dialing.international = phone_info.international_format
             /\ dialing.dial_string = phone_info.national_number
             /\ dialing.error = None
        ELSE /\ \A from \in EntriesOf(calling_from_country), to \in EntriesOf(phone_info.country_code) :
                    dialing.dial_string =
                        INTERNATIONAL_PHONE_DATABASE[from].international_prefix
                        \o StripNonDigits(INTERNATIONAL_PHONE_DATABASE[to].calling_code)
                        \o phone_info.national_number
             /\ dialing.international = phone_info.international_format
             /\ dialing.instructions \notin {None, ""}
             /\ dialing.error = None

\* the Denver number of main() dialled from the United Kingdom
C11_Witness ==
    /\ Dialled
    /\ calling_from_country = "GB"
    /\ phone_info.country_code = "US"
    /\ phone_info.national_number = "3035550123"
    /\ dialing.dial_string = "0013035550123"
    /\ dialing.instructions = "Dial 00 + 1 + 3035550123"

\* C12: a calling-from value that is no country code of the phone table gives a
\* result with an error field and no dial_string; for a number that
\* parse_phone_number returned there is no other error: every calling-from value
\* that is a country code of the table gives a dial_string and no error.
C12_UnknownCallingCountry ==
    Dialled =>
        IF calling_from_country \in TableCodes
        THEN dialing.error = None /\ dialing.dial_string # None
        ELSE /\ dialing.error \notin {None, ""}
             /\ dialing.dial_string = None
             /\ dialing.domestic = None
             /\ dialing.international = None
             /\ dialing.instructions = None

\* a valid US number dialled from "us": the lookup does not fold the letter case
C12_Witness ==
    /\ Dialled
    /\ calling_from_country = "us"
    /\ phone_info.country_code = "US"
    /\ phone_info.is_valid
    /\ dialing.error = "Unknown calling country: us"
    /\ dialing.dial_string = None

\* C19 as stated: the timezone is the override of (resolved country, area code)
\* when the override table has one, otherwise the default of the resolved
\* country, and never 'UTC' for a country of the phone table.
C19_TimezoneNeverUTC ==
    Parsed =>
        \A k \in EntriesOf(phone_info.country_code) :
            /\ IF k \in DOMAIN timezone_mapping /\ phone_info.area_code \in DOMAIN timezone_mapping[k]
               THEN phone_info.timezone = timezone_mapping[k][phone_info.area_code]
               ELSE k \in DOMAIN default_timezones => phone_info.timezone = default_timezones[k]
            /\ phone_info.timezone # "UTC"

\* the parts a cleaned number can lose at the front for a country: its calling
\* code as '+' and digits or as bare digits, then its national prefix
CodeParts(info) ==
    {"+" \o StripNonDigits(info.calling_code), StripNonDigits(info.calling_code), ""}

PrefixParts(info) == {info.national_prefix, ""}

\* C20: the national number is the cleaned string less the resolved country's
\* calling code at the front when it is there ('+' and the code, or the bare
\* code digits), less one occurrence of the country's national prefix at the
\* front of what is left when it is there; a second occurrence stays.
C20_NationalNumber ==
    Parsed =>
        \A k \in EntriesOf(phone_info.country_code) :
            LET info == INTERNATIONAL_PHONE_DATABASE[k]
            IN  \E code_part \in CodeParts(info), prefix_part \in PrefixParts(info) :
                    /\ phone_info.raw_number = code_part \o prefix_part \o phone_info.national_number
                    /\ code_part = "" =>
                          \A c \in CodeParts(info) \ {""} : ~StartsWith(phone_info.raw_number, c)
                    /\ code_part = StripNonDigits(info.calling_code) =>
                          ~StartsWith(phone_info.raw_number, "+")
                    /\ prefix_part = "" =>
                          \/ info.national_prefix = ""
                          \/ ~StartsWith(phone_info.national_number, info.national_prefix)

\* a German number written with '+49' and two zeros: one zero stays
C20_Witness ==
    /\ pc = "parsed"
    /\ phone_number = "+49 0030 1234567"
    /\ phone_info.raw_number = "+4900301234567"
    /\ phone_info.national_number = "0301234567"
    /\ phone_info.area_code = "030"
    /\ phone_info.is_valid

\* no two entries of the country phone table share a calling code or a country code
TableKeysUnique ==
    \A a, b \in Countries :
        a # b =>
            /\ INTERNATIONAL_PHONE_DATABASE[a].calling_code # INTERNATIONAL_PHONE_DATABASE[b].calling_code
            /\ INTERNATIONAL_PHONE_DATABASE[a].country_code # INTERNATIONAL_PHONE_DATABASE[b].country_code

\* C16: in the country phone table a parse has read, the calling code is unique
\* across countries and the country code is unique across countries.
C16_TableKeysUnique == Parsed => TableKeysUnique

\* C17: _clean_phone_number is idempotent: cleaning the cleaned form of a
\* string gives the cleaned form again.
C17_CleanIdempotent ==
    pc = "recleaned" =>
        /\ recleaned = cleaned
        /\ _clean_phone_number(_clean_phone_number(phone_number)) = _clean_phone_number(phone_number)

\* a string the first cleaning changed: '+' twice and punctuation
C17_Witness ==
    /\ pc = "recleaned"
    /\ phone_number = "+-1"
    /\ cleaned = "+1"
    /\ recleaned = "+1"

\* the length rule of a country code as the rules are listed
LengthRule(cc, n) ==
    CASE cc \in {"US", "CA", "IN"} -> n = 10
      [] cc \in {"AU", "FR"} -> n = 9
      [] cc \in {"GB", "JP"} -> n \in 10..11
      [] cc = "DE" -> n \in 10..12
      [] OTHER -> n >= 7

\* C22: is_valid is decided by the length of the national number alone: 10 for
\* US, CA and IN, 9 for AU and FR, 10 to 11 for GB and JP, 10 to 12 for DE, and
\* at least 7 for every other country.
C22_ValidByLength ==
    Parsed => (phone_info.is_valid <=> LengthRule(phone_info.country_code, Len(phone_info.national_number)))

\* an Indian number of eleven digits, which the rule for other countries would accept
C22_Witness ==
    /\ pc = "parsed"
    /\ phone_info.country_code = "IN"
    /\ Len(phone_info.national_number) = 11
    /\ ~phone_info.is_valid

\* the national number starts with one of the prefixes
StartsWithAny(number, prefixes) == \E p \in prefixes : StartsWith(number, p)

RECURSIVE PickInOrder(_, _)
PickInOrder(s, positions) ==
    IF positions = {} THEN ""
    ELSE LET first == CHOOSE i \in positions : \A j \in positions : i <= j
         IN  SubSeq(s, first, first) \o PickInOrder(s, positions \ {first})

\* the digits of s in their order
DigitsInOrder(s) == PickInOrder(s, {i \in 1..Len(s) : SubSeq(s, i, i) \in Digits})

C26_NationalDigitsOnly ==
    Parsed => AllIn(phone_info.national_number, Digits)

\* C27: rendering loses, adds and reorders no digit: formatted_number without
\* its non-digit characters is the national number, for every country and
\* every length, and international_format is the calling code, a space and
\* formatted_number.
C27_RenderingKeepsDigits ==
    /\ Parsed =>
          /\ StripNonDigits(phone_info.formatted_number) = phone_info.national_number
          /\ \A k \in EntriesOf(phone_info.country_code) :
                phone_info.international_format =
                    INTERNATIONAL_PHONE_DATABASE[k].calling_code \o " " \o phone_info.formatted_number
    /\ pc = "formatted" => StripNonDigits(fmt_result) = fmt_national

\* the lengths, of those tried, at which the national number's prefix is a key
KeyLengths == {len \in {2, 3, 4, 5} :
                  /\ len <= Len(area_national)
                  /\ SubSeq(area_national, 1, len) \in area_map}

\* C21: area-code extraction returns the prefix of the national number of the
\* first length among 2, 3, 4, 5 that is a key of the area-code map, so the
\* shortest when several are; the result is absent or a key of the map that is
\* a prefix of the national number.
C21_ShortestAreaCode ==
    pc = "extracted" =>
        IF KeyLengths = {}
        THEN area_found = None
        ELSE /\ area_found \in area_map
             /\ StartsWith(area_national, area_found)
             /\ Len(area_found) \in KeyLengths
             /\ \A len \in KeyLengths : Len(area_found) <= len

\* "303", "3035" and "30355" are all keys: the shortest one is returned
C21_Witness ==
    /\ pc = "extracted"
    /\ area_national = "3035550123"
    /\ area_map = {"3035", "30355", "303"}
    /\ area_found = "303"

-----------------------------------------------------------------------------
(* Properties of the jurisdiction manager *)

\* the target-system lists of the categories in which a list of another legal
\* system holds the claim type, whatever its letter case
EquivalentsFromSource(claim, target_system) ==
    UNION {Elements(LEGAL_EQUIVALENCIES[category][target_system]) :
              category \in {cat \in Elements(CategoryOrder) :
                  /\ target_system \in DOMAIN LEGAL_EQUIVALENCIES[cat]
                  /\ \E source \in DOMAIN LEGAL_EQUIVALENCIES[cat] \ {target_system} :
                        \E c \in Elements(LEGAL_EQUIVALENCIES[cat][source]) :
                            Lower(c) = Lower(claim)}}

\* C6: find_equivalent_claim_types returns the union of the target-system lists
\* of every category whose source-system list holds the claim type;
\* ('wrongful_termination', 'civil_law') gives the civil-law employment terms.
C6_EquivalentsFromSource ==
    pc = "equivalents" =>
        /\ equivalents = EquivalentsFromSource(claim_type, target_legal_system)
        /\ (claim_type = "wrongful_termination" /\ target_legal_system = "civil_law") =>
              /\ equivalents = Elements(LEGAL_EQUIVALENCIES["employment_law"]["civil_law"])
              /\ equivalents # {}

\* a load with a state given has returned, having read a list of well-formed cases
LoadedWithState ==
    /\ pc = "loaded"
    /\ Truthy(load_state)
    /\ loaded.data_file # None
    /\ files[loaded.data_file].kind = "json"
    /\ \A i \in 1..Len(files[loaded.data_file].cases) : ~CaseRaises(files[loaded.data_file].cases[i])

\* the modern fields of a case equal (country, state), letter case aside
ModernMatch(case) ==
    /\ FieldLower(case.country) = Lower(load_country)
    /\ FieldLower(case.state_province) = Lower(load_state)

\* the legacy jurisdiction field of a case equals state, letter case aside
LegacyMatch(case) == FieldLower(case.jurisdiction) = Lower(load_state)

\* C7: with a state given, every case of the file that matches by its modern
\* fields or by its legacy jurisdiction field is returned, whatever its other
\* fields hold.
C7_ModernOrLegacy ==
    LoadedWithState =>
        \A case \in Elements(files[loaded.data_file].cases) :
            (ModernMatch(case) \/ LegacyMatch(case)) => case \in Elements(loaded.cases)

\* C8: with a state given, no returned case has a non-empty state_province other
\* than the state asked for, nor a non-empty country other than the country
\* asked for.
C8_NoOtherState ==
    LoadedWithState =>
        \A case \in Elements(loaded.cases) :
            /\ FieldLower(case.state_province) \in {"", Lower(load_state)}
            /\ FieldLower(case.country) \in {"", Lower(load_country)}

\* the positions of the state entries of a result list
StateMatches(results) == {i \in 1..Len(results) : results[i].type = "state"}

\* C13: search_jurisdictions("colorado") returns exactly one state match, with
\* state_code "CO"; search_jurisdictions("england") returns exactly one state
\* match, with state_code "ENG".
C13_DemoSearches ==
    /\ (pc = "searched" /\ query = "colorado") =>
            /\ Cardinality(StateMatches(search_results)) = 1
            /\ \A i \in StateMatches(search_results) : search_results[i].state_code = "CO"
    /\ (pc = "searched" /\ query = "england") =>
            /\ Cardinality(StateMatches(search_results)) = 1
            /\ \A i \in StateMatches(search_results) : search_results[i].state_code = "ENG"

C13_Witness ==
    /\ pc = "searched"
    /\ query = "england"
    /\ Len(search_results) = 1
    /\ search_results[1].type = "state"
    /\ search_results[1].state_code = "ENG"
    /\ search_results[1].country_name = "United Kingdom"

\* the entries a query must find: a country by its name or code, a state by its
\* name, code or key, letter case aside
ExpectedEntries(q) ==
    {CountryEntry(k) : k \in {c \in Elements(JurisdictionOrder) :
        \/ Contains(Lower(INTERNATIONAL_JURISDICTIONS[c].country_name), Lower(q))
        \/ Contains(Lower(INTERNATIONAL_JURISDICTIONS[c].country_code), Lower(q))}}
    \cup UNION {{StateEntry(k, sk) : sk \in {st \in Elements(INTERNATIONAL_JURISDICTIONS[k].state_order) :
                    \/ Contains(Lower(INTERNATIONAL_JURISDICTIONS[k].states[st].name), Lower(q))
                    \/ Contains(Lower(INTERNATIONAL_JURISDICTIONS[k].states[st].code), Lower(q))
                    \/ Contains(Lower(st), Lower(q))}} :
                 k \in Elements(JurisdictionOrder)}

\* the position of an element in a list without duplicates
IndexOf(list, x) == CHOOSE i \in 1..Len(list) : list[i] = x

\* where an entry belongs: its country's position, then 0 for the country
\* itself or the state's position among the country's states
EntryRank(e) ==
    IF e.type = "country"
    THEN <<IndexOf(JurisdictionOrder, e.key), 0>>
    ELSE <<IndexOf(JurisdictionOrder, e.country_key),
           IndexOf(INTERNATIONAL_JURISDICTIONS[e.country_key].state_order, e.state_key)>>

RankBefore(a, b) == a[1] < b[1] \/ (a[1] = b[1] /\ a[2] < b[2])

\* C14: search_jurisdictions returns one country entry for each country whose
\* name or code contains the query and one state entry for each state whose
\* name, code or key contains it, letter case aside and each decided on its own,
\* in country order with a country's entry before its states in state order;
\* the query in upper or lower case returns the same list.
C14_SearchOrder ==
    pc = "searched" =>
        /\ Elements(search_results) = ExpectedEntries(query)
        /\ Len(search_results) = Cardinality(ExpectedEntries(query))
        /\ \A i, j \in 1..Len(search_results) :
              i < j => RankBefore(EntryRank(search_results[i]), EntryRank(search_results[j]))
        /\ search_jurisdictions(Upper(query)) = search_results
        /\ search_jurisdictions(Lower(query)) = search_results

\* "IA" finds Australia and, right after it, its state Victoria, among others
C14_Witness ==
    /\ pc = "searched"
    /\ query = "IA"
    /\ Len(search_results) = 6
    /\ search_results[1].state_key = "california"
    /\ search_results[3].type = "country"
    /\ search_results[3].key = "australia"
    /\ search_results[4].state_key = "victoria"
    /\ search_results[6].state_code = "NW"

\* C15: validate_postal_code returns a (valid, reason) pair with a non-empty
\* reason; a country code without a pattern gives valid false, ("80202", "US")
\* gives valid true and ("ABC", "US") gives valid false.
C15_PostalVerdict ==
    pc = "validated" =>
        /\ postal_result.valid \in BOOLEAN
        /\ postal_result.reason \notin {None, ""}
        /\ Upper(postal_country) \notin patterns => ~postal_result.valid
        /\ (postal_code = "80202" /\ postal_country = "US") => postal_result.valid
        /\ (postal_code = "ABC" /\ postal_country = "US") => ~postal_result.valid

C15_Witness ==
    /\ pc = "validated"
    /\ postal_code = "80202"
    /\ postal_country = "US"
    /\ postal_result.valid
    /\ postal_result.reason = "Valid postal code format"

\* what a step may change on disk: nothing of the case data files; the index
\* directory only at the mkdir of a rebuild, metadata.json only at its write,
\* index_info.json only at its write
FrameStep ==
    /\ files' = files
    /\ index_dir'.dir # index_dir.dir => pc = "rb_mkdir"
    /\ index_dir'.metadata # index_dir.metadata => pc = "rb_metadata"
    /\ index_dir'.index_info # index_dir.index_info => pc = "rb_info"

\* C18: over any sequence of loads and rebuilds no step modifies a case data
\* file; load_cases_by_jurisdiction changes nothing on disk, and
\* rebuild_colorado_index changes only metadata.json and index_info.json in
\* faiss_indices/usa/colorado (and makes that directory).
C18_OnlyIndexWritten == [][FrameStep]_vars

\* a load after a completed rebuild: the index holds the case, the file is as it was
C18_Witness ==
    /\ pc = "loaded"
    /\ files[CasePaths[1]] = CaseFile(<<ModernCase>>)
    /\ loaded.cases = <<ModernCase>>
    /\ index_dir.dir = "exists"
    /\ index_dir.metadata = MetadataOf(<<ModernCase>>)
    /\ index_dir.index_info = IndexInfoOf(<<ModernCase>>, <<1, EmbeddingDim>>)

\* what load_cases_by_jurisdiction("united_states", "colorado") returns on the files as they are
ColoradoLoad == load_cases_by_jurisdiction(files, "united_states", "colorado").cases

\* a step of a rebuild as far as its True result goes: the write of
\* index_info.json is reached only by the step that writes metadata.json, and
\* True is returned only by the step that writes index_info.json
ReturnsTrueStep ==
    /\ pc' = "rb_info" =>
           /\ pc = "rb_metadata"
           /\ index_dir'.metadata.state = "written"
           /\ index_dir'.metadata.cases = ColoradoLoad
    /\ (pc' = "rebuilt" /\ rebuilt' = "True") =>
           /\ pc = "rb_info"
           /\ index_dir'.dir = "exists"
           /\ index_dir'.metadata.state = "written"
           /\ index_dir'.metadata.cases = ColoradoLoad
           /\ index_dir'.index_info.state = "written"
           /\ index_dir'.index_info.cases_count = Len(ColoradoLoad)
           /\ index_dir'.index_info.embeddings_shape = <<Len(ColoradoLoad), EmbeddingDim>>

\* C25: whenever rebuild_colorado_index returns True, metadata.json and
\* index_info.json have both been written in that run, metadata.json holds the
\* list that load_cases_by_jurisdiction("united_states", "colorado") returns, in
\* its order, and index_info.json has cases_count equal to the length of that
\* list and the embeddings shape (cases_count, 768).
C25_TrueMeansBothWritten == [][ReturnsTrueStep]_vars

\* two Colorado cases, the legacy one first, over the artifacts of an earlier run
C25_Witness ==
    /\ pc = "rebuilt"
    /\ rebuilt = "True"
    /\ files[CasePaths[1]] = CaseFile(<<LegacyCase, ModernCase>>)
    /\ index_dir.metadata.cases = <<LegacyCase, ModernCase>>
    /\ index_dir.index_info.cases_count = 2
    /\ index_dir.index_info.embeddings_shape = <<2, EmbeddingDim>>

\* the file at a path makes the try block raise
FileRaises(file) ==
    \/ file.kind \in {"unreadable", "malformed", "not_cases"}
    \/ \E i \in 1..Len(file.cases) : CaseRaises(file.cases[i])

\* a case is a Colorado case by its modern fields or by its legacy field
ColoradoMatch(case) ==
    \/ FieldLower(case.country) = "united_states" /\ FieldLower(case.state_province) = "colorado"
    \/ FieldLower(case.jurisdiction) = "colorado"

\* there is no case file, or the one that is opened cannot be read, or none of
\* its cases is a Colorado case
NothingToIndex ==
    \/ \A i \in 1..Len(CasePaths) : ~Exists(files, CasePaths[i])
    \/ FileRaises(files[DataFile(files)])
    \/ \A case \in Elements(files[DataFile(files)].cases) : ~ColoradoMatch(case)

\* the first step of a rebuild when there is nothing to index
NothingToIndexStep ==
    (pc = "idle" /\ pc' \notin {"idle", "loaded"} /\ NothingToIndex) =>
        /\ pc' = "rebuilt"
        /\ rebuilt' = "False"
        /\ index_dir' = index_dir
        /\ files' = files

\* C28: when no case matches, or the case file is missing or unreadable,
\* rebuild_colorado_index returns False at once: the index directory is not
\* created and no artifact is written or overwritten, so the artifacts of an
\* earlier run are as they were.
C28_NothingToIndexWritesNothing == [][NothingToIndexStep]_vars

\* the file holds a Utah case only: False, and the index of an earlier run is untouched
C28_Witness ==
    /\ pc = "rebuilt"
    /\ rebuilt = "False"
    /\ colorado_cases = <<>>
    /\ files[CasePaths[1]] = CaseFile(<<OtherStateCase>>)
    /\ index_dir = [dir |-> "exists", metadata |-> MetadataOf(<<LegacyCase>>),
                    index_info |-> IndexInfoOf(<<LegacyCase>>, <<1, EmbeddingDim>>)]

\* C9: load_cases_by_jurisdiction raises nothing; with none of the three paths
\* there it returns the empty list; otherwise it reads the first path, in the
\* order tried, that exists, and when that file cannot be opened, is malformed
\* or holds a case with a non-string field it returns the empty list.
C9_LoadNeverRaises ==
    pc = "loaded" =>
        /\ loaded.exception = None
        /\ IF \A i \in 1..Len(CasePaths) : ~Exists(files, CasePaths[i])
           THEN loaded.cases = <<>> /\ loaded.data_file = None
           ELSE \E i \in 1..Len(CasePaths) :
                    /\ Exists(files, CasePaths[i])
                    /\ \A j \in 1..(i - 1) : ~Exists(files, CasePaths[j])
                    /\ loaded.data_file = CasePaths[i]
                    /\ FileRaises(files[CasePaths[i]]) => loaded.cases = <<>>

\* a matching case followed by one with a non-string field: nothing is returned
C9_Witness ==
    /\ pc = "loaded"
    /\ files[CasePaths[1]] = CaseFile(<<ModernCase, BrokenCase>>)
    /\ load_country = "united_states"
    /\ load_state = "colorado"
    /\ loaded.exception = None
    /\ loaded.cases = <<>>

\* the order of the effects of a rebuild: each stage is entered from the one
\* before it, with the directory there; the write of index_info.json is entered
\* with the whole metadata.json of this run on disk; either artifact changes
\* only in its own stage, and the other one stays as it is meanwhile
OrderedStep ==
    /\ pc' = "rb_embed" => pc = "rb_mkdir" /\ index_dir'.dir = "exists"
    /\ pc' = "rb_metadata" => pc = "rb_embed" /\ index_dir'.dir = "exists"
    /\ pc' = "rb_info" =>
           /\ pc = "rb_metadata"
           /\ index_dir'.dir = "exists"
           /\ index_dir'.metadata.state = "written"
           /\ index_dir'.metadata.cases = colorado_cases
    /\ index_dir'.metadata # index_dir.metadata =>
           /\ pc = "rb_metadata"
           /\ index_dir.dir = "exists"
           /\ index_dir'.index_info = index_dir.index_info
    /\ index_dir'.index_info # index_dir.index_info =>
           /\ pc = "rb_info"
           /\ index_dir.dir = "exists"
           /\ index_dir.metadata.state = "written"
           /\ index_dir.metadata.cases = colorado_cases
           /\ index_dir'.metadata = index_dir.metadata

\* C29: in a run of rebuild_colorado_index the index directory is made first,
\* then metadata.json is written, and only then index_info.json: a run that
\* fails on the way can leave its metadata.json beside a missing or an older
\* index_info.json, and index_info.json is never written unless metadata.json
\* of the same run was written before it.
C29_MetadataBeforeInfo == [][OrderedStep]_vars

\* the run wrote its metadata.json and failed before index_info.json was
\* touched: the new case list stands beside the index_info.json of an earlier run
C29_Witness ==
    /\ pc = "rebuilt"
    /\ rebuilt = "False"
    /\ colorado_cases = <<ModernCase>>
    /\ index_dir.metadata.state = "written"
    /\ index_dir.metadata.cases = <<ModernCase>>
    /\ index_dir.index_info.state = "written"
    /\ index_dir.index_info.cases_count = 1
    /\ index_dir.index_info.embeddings_shape = <<1, EmbeddingDim>>
    /\ files[CasePaths[1]] = CaseFile(<<ModernCase>>)

\* C10: rebuild_colorado_index lets no exception out: it ends by returning True
\* or, on any failure, False.
C10_RebuildNeverRaises ==
    pc = "rebuilt" => rebuilt \in {"True", "False"}

=============================================================================
